---- MODULE Spec2Model ----
(***************************************************************************)
(* A model of the arctic crate (Polar H10 over BLE): the session state of  *)
(* PolarSensor (requested measurement types, range, sample rate), the      *)
(* control-point transaction get_pmd_response, and event_loop, together    *)
(* with the decoders they call.                                            *)
(*                                                                         *)
(* The specifications share the variables:                                 *)
(*   CfgSpec  the calls that need &mut self (data_type_push,               *)
(*            data_type_pop, range, sample_rate) from PolarSensor::new;    *)
(*   Spec     event_loop running as a task, the handler's owner turning    *)
(*            should_continue to false, and the device;                    *)
(*   FairSpec Spec with the fairness the tokio scheduler and a responsive  *)
(*            device give;                                                 *)
(*   ConcSpec Spec with a second task calling start/stop on the same       *)
(*            Arc<PolarSensor> while event_loop runs;                      *)
(*   TxSpec   get_pmd_response called with every op-code, no event_loop;   *)
(*   DecSpec  the decoders (ControlResponse, PmdRead, HeartRate,           *)
(*            bytes_to_data, StreamSettings), each applied to inputs drawn *)
(*            in Init. StreamSettings::new is not among the sources; its   *)
(*            model follows the documented settings-payload grammar.       *)
(***************************************************************************)
EXTENDS Integers, Sequences, FiniteSets, TLC

(* ---------------------------------------------------------------- bounds *)

\* Capacity of one notification stream (a btleplug broadcast receiver).
MaxQueue == 1

\* Number of start/stop calls the second task makes while the loop runs.
MaxUserTx == 1

\* Number of continuation notifications given to add_parameters in a row.
MaxConts == 3

\* Longest PMD data notification given to PmdRead::new, in bytes: the ten
\* header bytes, two accelerometer frames and one byte more
MaxPmdLen == 23

\* Most RR pairs in a heart-rate notification given to HeartRate::new
MaxRR == 2

\* Most runs in a settings payload given to StreamSettings::new
MaxRuns == 2

(* ------------------------------------------------- enumerations (lib.rs) *)

Ecg == "Ecg"

Acc == "Acc"

H10MeasurementType == {Ecg, Acc}

\* H10MeasurementType::as_u8
as_u8(ty) == IF ty = Ecg THEN 0 ELSE 2

\* H10MeasurementType::as_bytes: the frame width of one sample
as_bytes(ty) == IF ty = Ecg THEN 3 ELSE 6

\* H10MeasurementType::try_from(u8): Ok for the tags 0 and 2 only
H10MeasurementType_try_from(b) ==
    IF b = 0 THEN [ok |-> TRUE, val |-> Ecg]
    ELSE IF b = 2 THEN [ok |-> TRUE, val |-> Acc]
    ELSE [ok |-> FALSE, val |-> Ecg]

\* ControlPointCommand discriminants
Null == 0

GetMeasurementSettings == 1

RequestMeasurementStart == 2

StopMeasurement == 3

GetSdkModeMeasurementSettings == 4

\* ControlPointCommand::try_from(u8)
ControlPointCommand_try_from(b) == b \in Null..GetSdkModeMeasurementSettings

\* ControlPointResponseCode::Success
Success == 0

\* ControlPointResponseCode::AlreadyInState
AlreadyInState == 6

\* ControlPointResponseCode::DeviceInCharger, the last status code
DeviceInCharger == 13

\* ControlPointResponseCode::try_from(u8)
ControlPointResponseCode_try_from(b) == b \in Success..DeviceInCharger

\* ResponseCode::InsufficientResources, the last ATT response code
InsufficientResources == 17

\* ResponseCode::try_from(u8)
ResponseCode_try_from(b) == b \in 0..InsufficientResources

\* The values Error takes in the model
Errors == {"NoDataType", "InvalidData", "InvalidLength", "NullCommand",
           "WrongType", "NoDevice", "NotConnected", "BleError"}

(* ------------------------------------------------------------- variables *)

VARIABLES
    data_type,     \* PolarSensor.data_type: [some |-> BOOLEAN, types |-> Seq]
    range,         \* PolarSensor.range
    sample_rate,   \* PolarSensor.sample_rate
    last,          \* the last &mut self call: its arguments, its result, the fields before it
    el,            \* the event_loop task: [pc, i, cur, polls]
    tx,            \* per task, the get_pmd_response call in progress
    strm,          \* per task, its notification stream
    subscribed,    \* characteristics with notifications enabled on the device
    connected,     \* device.is_connected()
    devPending,    \* commands written to the control point, not yet answered
    cont,          \* what EventHandler::should_continue returns
    user_n,        \* start/stop calls made by the second task
    log,           \* per task, its writes and completed calls; for el, the loop too
    hist,          \* whether a handler was called, whether should_continue returned
                   \* false, and the measurement streams running on the device
    call           \* the decoder call under check: function, argument, result

vars == <<data_type, range, sample_rate, last, el, tx, strm, subscribed,
          connected, devPending, cont, user_n, log, hist, call>>

\* What get_pmd_response and event_loop leave alone: the fields behind &self
\* and the record of the calls checked on their own
cfgVars == <<data_type, range, sample_rate, last, call>>

runVars == <<el, tx, strm, subscribed, connected, devPending, cont, user_n, log, hist>>

(* ------------------------------------- session configuration (&mut self) *)

\* Option::None for PolarSensor.data_type
None == [some |-> FALSE, types |-> <<>>]

\* Option::Some(types)
Some(types) == [some |-> TRUE, types |-> types]

\* Vec::contains
contains(s, x) == \E k \in 1..Len(s) : s[k] = x

\* Vec::retain(|x| *x != t)
RECURSIVE retain_ne(_, _)
retain_ne(s, t) ==
    IF s = <<>> THEN <<>>
    ELSE IF Head(s) # t THEN <<Head(s)>> \o retain_ne(Tail(s), t)
    ELSE retain_ne(Tail(s), t)

\* Faulty variant: pushes without looking at the first entry.
data_type_push_nocheck(dt, t) ==
    IF dt.some
    THEN IF Len(dt.types) # 2 THEN Some(Append(dt.types, t)) ELSE dt
    ELSE Some(<<t>>)

\* PolarSensor::data_type_push: the value of data_type after the call
data_type_push(dt, t) ==
    IF dt.some
    THEN IF Len(dt.types) # 2 /\ dt.types[1] # t
         THEN Some(Append(dt.types, t))
         ELSE dt
    ELSE Some(<<t>>)

\* Faulty variant: leaves Some(vec![]) behind when the last type is removed.
data_type_pop_keep_empty(dt, t) ==
    IF dt.some THEN Some(retain_ne(dt.types, t)) ELSE dt

\* PolarSensor::data_type_pop: the value of data_type after the call
data_type_pop(dt, t) ==
    IF dt.some
    THEN IF retain_ne(dt.types, t) = <<>> THEN None
         ELSE Some(retain_ne(dt.types, t))
    ELSE dt

\* Faulty variant: checks the requested types before the value.
range_types_first(dt, v) ==
    IF ~dt.some THEN "NoDataType"
    ELSE IF ~contains(dt.types, Acc) THEN "WrongType"
    ELSE IF v = 2 \/ v = 4 \/ v = 8 THEN "Ok"
    ELSE "InvalidData"

\* Faulty variant: the value is not looked at.
range_any_value(dt, v) ==
    IF dt.some
    THEN IF contains(dt.types, Acc) THEN "Ok" ELSE "WrongType"
    ELSE "NoDataType"

\* PolarSensor::range: what the call returns
range_result(dt, v) ==
    IF v = 2 \/ v = 4 \/ v = 8
    THEN IF dt.some
         THEN IF contains(dt.types, Acc) THEN "Ok" ELSE "WrongType"
         ELSE "NoDataType"
    ELSE "InvalidData"

\* PolarSensor::sample_rate: what the call returns
sample_rate_result(dt, v) ==
    IF v = 25 \/ v = 50 \/ v = 100 \/ v = 200
    THEN IF dt.some
         THEN IF contains(dt.types, Acc) THEN "Ok" ELSE "WrongType"
         ELSE "NoDataType"
    ELSE "InvalidData"

\* The u8 arguments tried for range and sample_rate
SettingArgs == {0, 2, 3, 4, 8, 16, 25, 50, 100, 200, 255}

\* The fields of the sensor a configuration call may change
Fields == [data_type |-> data_type, range |-> range, sample_rate |-> sample_rate]

\* Record of a configuration call: what was called, what it returned, and
\* the fields it found
Called(op, ty, v, res) ==
    [op |-> op, ty |-> ty, v |-> v, res |-> res, was |-> Fields]

PushCall(t) ==
    /\ data_type' = data_type_push(data_type, t)
    /\ last' = Called("data_type_push", t, 0, "Ok")
    /\ UNCHANGED <<range, sample_rate>>

PopCall(t) ==
    /\ data_type' = data_type_pop(data_type, t)
    /\ last' = Called("data_type_pop", t, 0, "Ok")
    /\ UNCHANGED <<range, sample_rate>>

RangeCall(v) ==
    /\ range' = IF range_result(data_type, v) = "Ok" THEN v ELSE range
    /\ last' = Called("range", Acc, v, range_result(data_type, v))
    /\ UNCHANGED <<data_type, sample_rate>>

SampleRateCall(v) ==
    /\ sample_rate' = IF sample_rate_result(data_type, v) = "Ok" THEN v ELSE sample_rate
    /\ last' = Called("sample_rate", Acc, v, sample_rate_result(data_type, v))
    /\ UNCHANGED <<data_type, range>>


(* --------------------------------------------------- decoders (pure) *)

\* PolarResult<T>
Ok(v) == [ok |-> TRUE, panic |-> FALSE, err |-> "", val |-> v]

Err(e, dflt) == [ok |-> FALSE, panic |-> FALSE, err |-> e, val |-> dflt]

\* A Rust panic while computing the value (index out of range, expect)
Panicked(dflt) == [ok |-> FALSE, panic |-> TRUE, err |-> "", val |-> dflt]

\* Placeholder carried by a result that holds no ControlResponse
NoResponse ==
    [response_code |-> 0, opcode |-> 0, measurement_type |-> Ecg,
     status |-> 0, parameters |-> <<>>, more |-> FALSE]

\* Faulty variant: the more flag and the parameters are read whatever the
\* status is.
ControlResponse_new_any_status(data) ==
    IF Len(data) < 4 THEN Err("InvalidData", NoResponse)
    ELSE IF ~ResponseCode_try_from(data[1]) THEN Err("InvalidData", NoResponse)
    ELSE IF ~ControlPointCommand_try_from(data[2]) THEN Err("InvalidData", NoResponse)
    ELSE IF ~H10MeasurementType_try_from(data[3]).ok THEN Err("InvalidData", NoResponse)
    ELSE IF ~ControlPointResponseCode_try_from(data[4]) THEN Err("InvalidData", NoResponse)
    ELSE Ok([response_code |-> data[1],
             opcode |-> data[2],
             measurement_type |-> H10MeasurementType_try_from(data[3]).val,
             status |-> data[4],
             parameters |-> IF Len(data) > 5 THEN SubSeq(data, 6, Len(data)) ELSE <<>>,
             more |-> Len(data) > 4 /\ data[5] # 0])

\* ControlResponse::new
ControlResponse_new(data) ==
    IF Len(data) < 4 THEN Err("InvalidData", NoResponse)
    ELSE IF ~ResponseCode_try_from(data[1]) THEN Err("InvalidData", NoResponse)
    ELSE IF ~ControlPointCommand_try_from(data[2]) THEN Err("InvalidData", NoResponse)
    ELSE IF ~H10MeasurementType_try_from(data[3]).ok THEN Err("InvalidData", NoResponse)
    ELSE IF ~ControlPointResponseCode_try_from(data[4]) THEN Err("InvalidData", NoResponse)
    ELSE Ok([response_code |-> data[1],
             opcode |-> data[2],
             measurement_type |-> H10MeasurementType_try_from(data[3]).val,
             status |-> data[4],
             parameters |-> IF data[4] = Success /\ Len(data) > 5
                            THEN SubSeq(data, 6, Len(data)) ELSE <<>>,
             more |-> data[4] = Success /\ Len(data) > 4 /\ data[5] # 0])

\* Faulty variant: the continuation flag is appended with the payload.
add_parameters_with_flag(self, data) ==
    IF Len(data) < 1 THEN Panicked(self)
    ELSE IF data[1] # 0
    THEN Ok([self EXCEPT !.parameters = @ \o data])
    ELSE Ok([self EXCEPT !.more = FALSE])

\* ControlResponse::add_parameters: self after the call; the value returned
\* is its more flag. data[0] panics on an empty notification.
add_parameters(self, data) ==
    IF Len(data) < 1 THEN Panicked(self)
    ELSE IF data[1] # 0
    THEN Ok([self EXCEPT !.parameters = @ \o SubSeq(data, 2, Len(data))])
    ELSE Ok([self EXCEPT !.more = FALSE])

\* Placeholder carried by a failed StreamSettings::new
NoSettings ==
    [ty |-> Ecg, resolution |-> 0, range |-> [some |-> FALSE, val |-> <<>>],
     sample_rate |-> <<>>]

\* The values of a run of n (value, reserved) pairs that starts at p[3]
RunValues(p, n) == [i \in 1..n |-> p[2 * i + 1]]

\* A faulty variant of the run step: Resolution keeps the first value seen
settings_run_first_resolution(acc, tag, vals) ==
    IF tag = 0 THEN [acc EXCEPT !.sample_rate = @ \o vals]
    ELSE IF tag = 1
    THEN [acc EXCEPT !.resolution = IF acc.resolution = 0 /\ vals # <<>>
                                    THEN vals[1] ELSE @]
    ELSE [acc EXCEPT !.range = [some |-> TRUE, val |-> @.val \o vals]]

\* One run of the settings payload added to the settings read so far: tag 0
\* is SampleRate, tag 1 Resolution, any other tag Range
settings_run(acc, tag, vals) ==
    IF tag = 0 THEN [acc EXCEPT !.sample_rate = @ \o vals]
    ELSE IF tag = 1
    THEN [acc EXCEPT !.resolution = IF vals # <<>> THEN vals[Len(vals)] ELSE @]
    ELSE [acc EXCEPT !.range = [some |-> TRUE, val |-> @.val \o vals]]

\* The cycle read tag, read length N, consume N (value, reserved) pairs,
\* over the bytes p not yet read; a payload that ends inside a run is
\* InvalidData
RECURSIVE settings_walk(_, _)
settings_walk(p, acc) ==
    IF p = <<>> THEN Ok(acc)
    ELSE IF Len(p) < 2 \/ Len(p) < 2 + 2 * p[2] THEN Err("InvalidData", NoSettings)
    ELSE settings_walk(SubSeq(p, 2 + 2 * p[2] + 1, Len(p)),
                       settings_run(acc, p[1], RunValues(p, p[2])))

\* StreamSettings::new(resp): WrongResponse unless resp answers
\* GetMeasurementSettings, then the walk over resp.parameters
StreamSettings_new(resp) ==
    IF resp.opcode # GetMeasurementSettings THEN Err("WrongResponse", NoSettings)
    ELSE settings_walk(resp.parameters,
                       [NoSettings EXCEPT !.ty = resp.measurement_type])

\* A faulty variant of i32::from_le_bytes: the fill byte is dropped, the
\* value stays unsigned
i32_from_le_bytes_unsigned(b0, b1, b2, b3) == b0 + b1 * 256 + b2 * 65536

\* i32::from_le_bytes of three data bytes and the fill byte buf[3], which
\* is 0xff when the top bit of data[2] is set and 0 otherwise
i32_from_le_bytes(b0, b1, b2, b3) ==
    b0 + b1 * 256 + b2 * 65536 + (IF b3 >= 128 THEN b3 - 256 ELSE b3) * 16777216

\* i16::from_le_bytes followed by i32::from
i16_from_le_bytes(b0, b1) ==
    IF b1 >= 128 THEN b0 + b1 * 256 - 65536 ELSE b0 + b1 * 256

\* i8::from_le_bytes followed by i32::from
i8_from_le_bytes(b0) == IF b0 >= 128 THEN b0 - 256 ELSE b0

\* bytes_to_data: the first len bytes of data as a signed little-endian
\* number.  The slices data[..len] and data[len - 1] panic on data shorter
\* than len, and the one-byte buffer of the last branch on len > 1; with
\* len = 0 the buffer stays zero.
bytes_to_data(data, len) ==
    IF len = 3
    THEN IF Len(data) < 3 THEN Panicked(0)
         ELSE Ok(i32_from_le_bytes(data[1], data[2], data[3],
                                   IF data[3] >= 128 THEN 255 ELSE 0))
    ELSE IF len = 2
    THEN IF Len(data) < 2 THEN Panicked(0)
         ELSE Ok(i16_from_le_bytes(data[1], data[2]))
    ELSE IF len > 1 \/ Len(data) < len THEN Panicked(0)
    ELSE IF len = 0 THEN Ok(0)
    ELSE Ok(i8_from_le_bytes(data[1]))

\* Ecg::new: one 3-byte value
Ecg_new(data) ==
    IF Len(data) < 3 THEN Err("InvalidLength", 0)
    ELSE Ok(bytes_to_data(SubSeq(data, 1, 3), 3).val)

\* Acc::new: three 2-byte values; the slices panic on less than six bytes
Acc_new(data) ==
    IF Len(data) < 2 THEN Err("InvalidLength", <<>>)
    ELSE IF Len(data) < 6 THEN Panicked(<<>>)
    ELSE Ok(<<bytes_to_data(SubSeq(data, 1, 2), 2).val,
              bytes_to_data(SubSeq(data, 3, 4), 2).val,
              bytes_to_data(SubSeq(data, 5, 6), 2).val>>)

\* Placeholder carried by a failed PmdRead::new
NoPmdRead == [data_type |-> Ecg, time_stamp |-> <<>>, samples |-> 0, data |-> <<>>]

\* A faulty variant of Frame: the frames are taken from the end of the
\* payload backwards
Frame_reversed(data_stream, frame_length, i) ==
    SubSeq(data_stream, Len(data_stream) - i * frame_length + 1,
           Len(data_stream) - (i - 1) * frame_length)

\* The i-th frame of frame_length bytes after the ten header bytes
Frame(data_stream, frame_length, i) ==
    SubSeq(data_stream, 10 + (i - 1) * frame_length + 1, 10 + i * frame_length)

\* The body of the sample loop of PmdRead::new
Sample(ty, frame) ==
    IF ty = Ecg THEN Ecg_new(frame) ELSE Acc_new(frame)

\* PmdRead::new: the type tag, then the slices [1..9] and [10..] (which
\* panic on a short payload), then one sample per whole frame.  time_stamp
\* is kept as its eight little-endian bytes.
PmdRead_new(data_stream) ==
    IF Len(data_stream) < 1 THEN Panicked(NoPmdRead)
    ELSE IF ~H10MeasurementType_try_from(data_stream[1]).ok
    THEN Err("InvalidData", NoPmdRead)
    ELSE IF Len(data_stream) < 10 THEN Panicked(NoPmdRead)
    ELSE LET ty == H10MeasurementType_try_from(data_stream[1]).val
             frame_length == as_bytes(ty)
             samples == (Len(data_stream) - 10) \div frame_length
         IN  Ok([data_type |-> ty,
                 time_stamp |-> SubSeq(data_stream, 2, 9),
                 samples |-> samples,
                 data |-> [i \in 1..samples |->
                              Sample(ty,
                                     Frame(data_stream, frame_length, i)).val]])

\* `as u32` of an i32, as two 16-bit limbs
as_u32(x) ==
    IF x >= 0 THEN [hi |-> x \div 65536, lo |-> x % 65536]
    ELSE [hi |-> 65535 - ((-x - 1) \div 65536), lo |-> 65535 - ((-x - 1) % 65536)]

\* u32 `* 128`: the wrapped product and whether it left the 32 bits
mul_128(u) ==
    [hi |-> (u.hi * 128 + (u.lo * 128) \div 65536) % 65536,
     lo |-> (u.lo * 128) % 65536,
     overflow |-> u.hi * 128 + (u.lo * 128) \div 65536 >= 65536]

\* u32 `/ 125` followed by `as u16`: the low 16 bits of the quotient
div_125_as_u16(u) == (((u.hi % 125) * 65536 + u.lo) \div 125) % 65536

\* The two builds of the crate: with overflow checks (the dev profile) an
\* overflowing `*` panics, without them (the release profile) it wraps
Builds == BOOLEAN

\* The expression pushed to rr_samp for the pair at data[i*2+2..i*2+4]
rr_sample(pair, overflow_checks) ==
    LET product == mul_128(as_u32(bytes_to_data(pair, 2).val))
    IN  IF product.overflow /\ overflow_checks THEN Panicked(0)
        ELSE Ok(div_125_as_u16(product))

\* A faulty variant of the flag test: RR data is taken to be present
\* whenever bytes follow
rr_present_always(flags) == TRUE

\* flags & 0b00010000 == 16: bit 4 of the flags byte says RR data follows
rr_present(flags) == (flags \div 16) % 2 = 1

\* Placeholder carried by a failed HeartRate::new
NoHeartRate == [bpm |-> 0, samples |-> 0, rr |-> [some |-> FALSE, val |-> <<>>]]

\* HeartRate::new: the length check, the RR flag, the bpm byte and one RR
\* interval per pair; rr is None when no interval was pushed
HeartRate_new(data, overflow_checks) ==
    IF Len(data) < 2 THEN Err("InvalidLength", NoHeartRate)
    ELSE LET samples == IF rr_present(data[1])
                        THEN (Len(data) - 2) \div 2 ELSE 0
             rr_samp == [i \in 1..samples |->
                            rr_sample(SubSeq(data, 2 * i + 1, 2 * i + 2),
                                      overflow_checks)]
         IN  IF \E i \in 1..samples : rr_samp[i].panic THEN Panicked(NoHeartRate)
             ELSE Ok([bpm |-> data[2],
                      samples |-> samples,
                      rr |-> [some |-> samples > 0,
                              val |-> [i \in 1..samples |-> rr_samp[i].val]]])

(* ------------------------------------------- control-point commands *)

\* A faulty variant of start_measurement: the sample rate is pushed before
\* the range
start_measurement_rate_first(ty) ==
    IF ty = Acc
    THEN <<2, as_u8(ty), 0, 1, sample_rate, 0, 2, 1, range, 0, 1, 1, 16, 0>>
    ELSE <<2, as_u8(ty), 0, 1, 130, 0, 1, 1, 14, 0>>

\* PolarSensor::start_measurement: the bytes written
start_measurement(ty) ==
    IF ty = Acc
    THEN <<2, as_u8(ty), 2, 1, range, 0, 0, 1, sample_rate, 0, 1, 1, 16, 0>>
    ELSE <<2, as_u8(ty), 0, 1, 130, 0, 1, 1, 14, 0>>

\* PolarSensor::stop_measurement: the bytes written
stop_measurement(ty) == <<3, as_u8(ty)>>

\* PolarSensor::internal_settings: the bytes written
internal_settings(ty) == <<1, as_u8(ty)>>

\* The match on the command in get_pmd_response
CommandBytes(cmd, ty) ==
    IF cmd = GetMeasurementSettings THEN internal_settings(ty)
    ELSE IF cmd = RequestMeasurementStart THEN start_measurement(ty)
    ELSE stop_measurement(ty)


(* ------------------------------------------------ tasks and streams *)

\* The task running event_loop and the task calling start/stop
Tasks == {"el", "user"}

\* A notification stream that is not open (none was requested, or dropped)
NoStream == [open |-> FALSE, closed |-> FALSE, q |-> <<>>]

\* The stream device.notifications() returns
NewStream == [open |-> TRUE, closed |-> FALSE, q |-> <<>>]

\* A ValueNotification
Notification(uuid, value) == [uuid |-> uuid, value |-> value]

NoNotification == Notification("none", <<>>)

\* notification_stream.next().await yields Some(data)
next_some(s) == s.q # <<>>

\* Faulty variant: next() yields None as soon as nothing is queued.
next_none_eager(s) == s.q = <<>>

\* notification_stream.next().await yields None: the stream has ended and
\* everything it held was taken
next_none(s) == s.q = <<>> /\ s.closed

\* No get_pmd_response call in progress
IdleTx ==
    [step |-> "none", cmd |-> Null, ty |-> Ecg,
     response |-> Err("NoDevice", NoResponse)]

\* get_pmd_response(cmd, ty) entered: response starts as Err(NoDevice)
CallTx(cmd, ty) ==
    [step |-> "sub", cmd |-> cmd, ty |-> ty,
     response |-> Err("NoDevice", NoResponse)]

\* The types event_loop iterates over (if let Some(types) = &self.data_type)
Types == IF data_type.some THEN data_type.types ELSE <<>>

\* The get_pmd_response call event_loop makes at a position
ELTx(pc, i) ==
    IF pc = "stopAcc" THEN CallTx(StopMeasurement, Acc)
    ELSE IF pc = "stopEcg" THEN CallTx(StopMeasurement, Ecg)
    ELSE IF pc = "start" THEN CallTx(RequestMeasurementStart, Types[i])
    ELSE IF pc = "stop" THEN CallTx(StopMeasurement, Types[i])
    ELSE IdleTx

\* Faulty variant: the requested types are started before the stale
\* streams are stopped.
NextAfter_start_first(pc, i) ==
    IF pc = "stopAcc"
    THEN IF Len(Types) >= 1 THEN [pc |-> "start", i |-> 1]
         ELSE [pc |-> "stopEcg", i |-> 1]
    ELSE IF pc = "start"
    THEN IF i < Len(Types) THEN [pc |-> "start", i |-> i + 1]
         ELSE [pc |-> "stopEcg", i |-> 1]
    ELSE IF pc = "stopEcg" THEN [pc |-> "open", i |-> 1]
    ELSE IF i < Len(Types) THEN [pc |-> "stop", i |-> i + 1]
    ELSE [pc |-> "ok", i |-> 1]

\* event_loop: where control goes after a get_pmd_response returned Ok
NextAfter(pc, i) ==
    IF pc = "stopAcc" THEN [pc |-> "stopEcg", i |-> 1]
    ELSE IF pc = "stopEcg"
    THEN IF Len(Types) >= 1 THEN [pc |-> "start", i |-> 1]
         ELSE [pc |-> "open", i |-> 1]
    ELSE IF pc = "start"
    THEN IF i < Len(Types) THEN [pc |-> "start", i |-> i + 1]
         ELSE [pc |-> "open", i |-> 1]
    ELSE IF i < Len(Types) THEN [pc |-> "stop", i |-> i + 1]
    ELSE [pc |-> "ok", i |-> 1]

\* event_loop: where control goes when the while loop is left
AfterLoop ==
    IF Len(Types) >= 1 THEN [pc |-> "stop", i |-> 1] ELSE [pc |-> "ok", i |-> 1]

\* The ? operator after get_pmd_response(..).await in event_loop
Propagate(res, pc, i) ==
    IF res.ok THEN NextAfter(pc, i) ELSE [pc |-> "err", i |-> i]

\* el after its get_pmd_response call returned res
ELReturn(res) ==
    [el EXCEPT !.pc = Propagate(res, el.pc, el.i).pc,
               !.i = Propagate(res, el.pc, el.i).i]

\* An entry of a task's log: a control-point write ("write"), a call that
\* returned Ok ("done"), a call that returned an error (the error's name)
Event(e, t) == [e |-> e, cmd |-> tx[t].cmd, ty |-> tx[t].ty]

\* An entry of el's log: the while loop entered, the while loop left
Mark(e) == [e |-> e, cmd |-> Null, ty |-> Ecg]

\* The log with an entry added for task t
Logged(t, entry) == [log EXCEPT ![t] = Append(@, entry)]

\* get_pmd_response returns res to task t: its stream is dropped, and
\* event_loop goes on (or returns the error)
Return(t, res) ==
    /\ strm' = [strm EXCEPT ![t] = NoStream]
    /\ log' = Logged(t, Event(IF res.ok THEN "done" ELSE res.err, t))
    /\ IF t = "el"
       THEN /\ el' = ELReturn(res)
            /\ tx' = [tx EXCEPT ![t] = ELTx(ELReturn(res).pc, ELReturn(res).i)]
       ELSE /\ el' = el
            /\ tx' = [tx EXCEPT ![t] = IdleTx]

\* The task of t panics: it ends there, its stream is dropped
Panic(t) ==
    /\ strm' = [strm EXCEPT ![t] = NoStream]
    /\ tx' = [tx EXCEPT ![t] = [IdleTx EXCEPT !.step = IF t = "el" THEN "none" ELSE "panic"]]
    /\ el' = IF t = "el" THEN [el EXCEPT !.pc = "panic"] ELSE el
    /\ UNCHANGED log


(* ------------------------------------ get_pmd_response, step by step *)

\* self.subscribe(NotifyStream::MeasurementCP).await?: NotConnected when
\* is_connected() is not Ok(true), else the transport's subscribe
GPR_Subscribe(t) ==
    /\ tx[t].step = "sub"
    /\ \/ /\ connected
          /\ subscribed' = subscribed \cup {"CP"}
          /\ tx' = [tx EXCEPT ![t].step = "open"]
          /\ UNCHANGED <<el, strm, log>>
       \/ /\ Return(t, Err(IF connected THEN "BleError" ELSE "NotConnected", NoResponse))
          /\ UNCHANGED subscribed
    /\ UNCHANGED <<connected, devPending, cont, user_n, hist>>
    /\ UNCHANGED cfgVars

\* device.notifications().await.map_err(Error::BleError)?: a stream opened
\* after the connection broke has already ended
GPR_Notifications(t) ==
    /\ tx[t].step = "open"
    /\ \/ /\ strm' = [strm EXCEPT ![t] = [NewStream EXCEPT !.closed = ~connected]]
          /\ tx' = [tx EXCEPT ![t].step = "write"]
          /\ UNCHANGED <<el, log>>
       \/ Return(t, Err("BleError", NoResponse))
    /\ UNCHANGED <<subscribed, connected, devPending, cont, user_n, hist>>
    /\ UNCHANGED cfgVars

\* Faulty variant: no op-code is rejected.
Rejected_never(cmd) == FALSE

\* ControlPointCommand::Null => return Err(Error::NullCommand)
Rejected(cmd) == cmd = Null

\* match command { Null => return Err(NullCommand), .. => write }: the write
\* goes through ControlPoint::write, which unwraps the transport's result
GPR_Write(t) ==
    /\ tx[t].step = "write"
    /\ IF Rejected(tx[t].cmd)
       THEN /\ Return(t, Err("NullCommand", NoResponse))
            /\ UNCHANGED devPending
       ELSE \/ /\ connected
               /\ devPending' = Append(devPending, CommandBytes(tx[t].cmd, tx[t].ty))
               /\ tx' = [tx EXCEPT ![t].step = "await"]
               /\ log' = Logged(t, Event("write", t))
               /\ UNCHANGED <<el, strm>>
            \/ /\ Panic(t)
               /\ UNCHANGED devPending
    /\ UNCHANGED <<subscribed, connected, cont, user_n, hist>>
    /\ UNCHANGED cfgVars

\* if data.uuid == NotifyUuid::MeasurementCP.into()
TakesResponse(t, n) == n.uuid = "CP"

\* while let Some(data) = notification_stream.next().await: one notification
\* taken from the stream; the first from the control point ends the wait
GPR_Await(t) ==
    /\ tx[t].step = "await"
    /\ next_some(strm[t])
    /\ IF TakesResponse(t, Head(strm[t].q))
       THEN IF ControlResponse_new(Head(strm[t].q).value).ok
            THEN /\ tx' = [tx EXCEPT ![t].step = "unsub",
                                     ![t].response = ControlResponse_new(Head(strm[t].q).value)]
                 /\ strm' = [strm EXCEPT ![t].q = Tail(@)]
                 /\ UNCHANGED <<el, log>>
            ELSE Panic(t)
       ELSE /\ strm' = [strm EXCEPT ![t].q = Tail(@)]
            /\ UNCHANGED <<tx, el, log>>
    /\ UNCHANGED <<subscribed, connected, devPending, cont, user_n, hist>>
    /\ UNCHANGED cfgVars

\* notification_stream.next() gives None: the stream has ended
GPR_StreamEnded(t) ==
    /\ tx[t].step = "await"
    /\ next_none(strm[t])
    /\ tx' = [tx EXCEPT ![t].step = "unsub"]
    /\ UNCHANGED <<el, strm, log>>
    /\ UNCHANGED <<subscribed, connected, devPending, cont, user_n, hist>>
    /\ UNCHANGED cfgVars

\* self.unsubscribe(NotifyStream::MeasurementCP).await?; response
GPR_Unsubscribe(t) ==
    /\ tx[t].step = "unsub"
    /\ \/ /\ connected
          /\ subscribed' = subscribed \ {"CP"}
          /\ Return(t, tx[t].response)
       \/ /\ Return(t, Err(IF connected THEN "BleError" ELSE "NotConnected", NoResponse))
          /\ UNCHANGED subscribed
    /\ UNCHANGED <<connected, devPending, cont, user_n, hist>>
    /\ UNCHANGED cfgVars

(* --------------------------------------------------------- event_loop *)

\* Faulty variant: the notification is dispatched whatever should_continue
\* returned.
PollBranch_always(c) == "dispatch"

\* if eh.should_continue().await { .. } else { break }
PollBranch(c) == IF c THEN "dispatch" ELSE "break"

\* event_loop leaves the while loop: its notification stream is dropped and
\* the exit cleanup starts
LeaveLoop(how) ==
    /\ el' = [el EXCEPT !.pc = AfterLoop.pc, !.i = AfterLoop.i, !.cur = NoNotification,
                        !.polls = IF how = "break" THEN @ + 1 ELSE @]
    /\ tx' = [tx EXCEPT !["el"] = ELTx(AfterLoop.pc, AfterLoop.i)]
    /\ strm' = [strm EXCEPT !["el"] = NoStream]
    /\ log' = Logged("el", Mark(how))
    /\ hist' = [hist EXCEPT !.stopped = IF how = "break" THEN TRUE ELSE @]

\* let mut notification_stream = device.notifications().await.map_err(..)?
EL_Notifications ==
    /\ el.pc = "open"
    /\ \/ /\ strm' = [strm EXCEPT !["el"] = [NewStream EXCEPT !.closed = ~connected]]
          /\ el' = [el EXCEPT !.pc = "next"]
          /\ log' = Logged("el", Mark("loop"))
       \/ /\ el' = [el EXCEPT !.pc = "err"]
          /\ UNCHANGED <<strm, log>>
    /\ UNCHANGED <<tx, subscribed, connected, devPending, cont, user_n, hist>>
    /\ UNCHANGED cfgVars

\* while let Some(data) = notification_stream.next().await
EL_Next ==
    /\ el.pc = "next"
    /\ next_some(strm["el"])
    /\ el' = [el EXCEPT !.pc = "poll", !.cur = Head(strm["el"].q), !.polls = 0]
    /\ strm' = [strm EXCEPT !["el"].q = Tail(@)]
    /\ UNCHANGED <<tx, subscribed, connected, devPending, cont, user_n, log, hist>>
    /\ UNCHANGED cfgVars

\* notification_stream.next() gives None: the loop ends
EL_StreamEnded ==
    /\ el.pc = "next"
    /\ next_none(strm["el"])
    /\ LeaveLoop("closed")
    /\ UNCHANGED <<subscribed, connected, devPending, cont, user_n>>
    /\ UNCHANGED cfgVars

\* eh.should_continue().await
EL_Poll ==
    /\ el.pc = "poll"
    /\ IF PollBranch(cont) = "dispatch"
       THEN /\ el' = [el EXCEPT !.pc = "dispatch", !.polls = @ + 1]
            /\ hist' = [hist EXCEPT !.stopped = IF cont THEN @ ELSE TRUE]
            /\ UNCHANGED <<tx, strm, log>>
       ELSE LeaveLoop("break")
    /\ UNCHANGED <<subscribed, connected, devPending, cont, user_n>>
    /\ UNCHANGED cfgVars

\* event_loop goes back to the head of the while loop
Again == [el EXCEPT !.pc = "next", !.cur = NoNotification]

\* event_loop ends inside the loop: by the ? or by a panic
Ends(how) == [el EXCEPT !.pc = how, !.cur = NoNotification]

\* A handler callback of the EventHandler is invoked
Handled == [hist EXCEPT !.dispatched = TRUE]

\* The body of the if: decode by characteristic and call the handler
EL_Dispatch ==
    /\ el.pc = "dispatch"
    /\ IF el.cur.uuid = "Battery"
       THEN \* data.value[0] panics on an empty value
            IF Len(el.cur.value) >= 1
            THEN /\ el' = Again
                 /\ hist' = Handled
                 /\ UNCHANGED <<strm, log>>
            ELSE /\ el' = Ends("panic")
                 /\ strm' = [strm EXCEPT !["el"] = NoStream]
                 /\ UNCHANGED <<hist, log>>
       ELSE IF el.cur.uuid = "HR"
       THEN \* let hr = HeartRate::new(data.value)?
            \E overflow_checks \in Builds :
              IF HeartRate_new(el.cur.value, overflow_checks).ok
              THEN /\ el' = Again
                   /\ hist' = Handled
                   /\ UNCHANGED <<strm, log>>
              ELSE IF HeartRate_new(el.cur.value, overflow_checks).panic
              THEN /\ el' = Ends("panic")
                   /\ strm' = [strm EXCEPT !["el"] = NoStream]
                   /\ UNCHANGED <<hist, log>>
              ELSE /\ el' = Ends("err")
                   /\ strm' = [strm EXCEPT !["el"] = NoStream]
                   /\ log' = Logged("el", Mark("decode"))
                   /\ UNCHANGED hist
       ELSE IF el.cur.uuid = "Data"
       THEN \* if let Ok(response) = PmdRead::new(data.value) .. else eprintln
            IF PmdRead_new(el.cur.value).panic
            THEN /\ el' = Ends("panic")
                 /\ strm' = [strm EXCEPT !["el"] = NoStream]
                 /\ UNCHANGED <<hist, log>>
            ELSE /\ el' = Again
                 /\ hist' = IF PmdRead_new(el.cur.value).ok THEN Handled ELSE hist
                 /\ UNCHANGED <<strm, log>>
       ELSE /\ el' = Again
            /\ UNCHANGED <<strm, hist, log>>
    /\ UNCHANGED <<tx, subscribed, connected, devPending, cont, user_n>>
    /\ UNCHANGED cfgVars

(* ------------------------------------------------------ the second task *)

\* PolarSensor::start(ty) or PolarSensor::stop(ty) called from another task
\* holding the same Arc<PolarSensor>
UserCall(cmd, ty) ==
    /\ tx["user"].step = "none"
    /\ user_n < MaxUserTx
    /\ tx' = [tx EXCEPT !["user"] = CallTx(cmd, ty)]
    /\ user_n' = user_n + 1
    /\ UNCHANGED <<el, strm, subscribed, connected, devPending, cont, log, hist>>
    /\ UNCHANGED cfgVars

\* tx.send(false): from now on should_continue returns false
UserSendFalse ==
    /\ cont
    /\ cont' = FALSE
    /\ UNCHANGED <<el, tx, strm, subscribed, connected, devPending, user_n, log, hist>>
    /\ UNCHANGED cfgVars

(* --------------------------------------------- the device and transport *)

\* A notification reaches every stream that is open
CanBroadcast ==
    \A t \in Tasks : strm[t].open /\ ~strm[t].closed => Len(strm[t].q) < MaxQueue

Broadcast(n) ==
    [t \in Tasks |->
        IF strm[t].open /\ ~strm[t].closed
        THEN [strm[t] EXCEPT !.q = Append(@, n)]
        ELSE strm[t]]

\* The control-point notifications the device may answer a command with:
\* byte 0, op-code and type of the command, status, more flag, parameters
Responses(c) ==
    { <<0, c[1], c[2], Success, 0>>,
      <<0, c[1], c[2], Success, 1, 130>>,
      <<0, c[1], c[2], AlreadyInState, 0>>,
      <<240, c[1], c[2], Success, 0>> }

\* The measurement streams running on the device once it has carried out
\* the command c: a start command adds its type, a stop command removes it
Running(r, c) ==
    IF c[1] = RequestMeasurementStart THEN r \cup {H10MeasurementType_try_from(c[2]).val}
    ELSE IF c[1] = StopMeasurement THEN r \ {H10MeasurementType_try_from(c[2]).val}
    ELSE r

\* The device carries out and answers the oldest command; the notification
\* is sent only while control-point notifications are enabled
DeviceRespond ==
    /\ connected
    /\ devPending # <<>>
    /\ devPending' = Tail(devPending)
    /\ hist' = [hist EXCEPT !.running = Running(@, Head(devPending))]
    /\ IF "CP" \in subscribed
       THEN /\ CanBroadcast
            /\ \E v \in Responses(Head(devPending)) :
                  strm' = Broadcast(Notification("CP", v))
       ELSE UNCHANGED strm
    /\ UNCHANGED <<el, tx, subscribed, connected, cont, user_n, log>>
    /\ UNCHANGED cfgVars

\* Measurement, heart-rate and battery notifications: a well-formed Acc
\* frame, a frame with an unknown type tag, a truncated frame; a heart-rate
\* notification with two RR values, a one-byte one; a battery level
Notifications ==
    { Notification("Data", <<2, 0, 0, 0, 0, 0, 0, 0, 0, 1, 69, 255, 228, 255, 181, 3>>),
      Notification("Data", <<1, 0, 0, 0, 0, 0, 0, 0, 0, 1, 0, 0, 0>>),
      Notification("Data", <<2, 0, 0>>),
      Notification("HR", <<16, 60, 55, 4, 7, 3>>),
      Notification("HR", <<16>>),
      Notification("Battery", <<90>>) }

DeviceNotify(n) ==
    /\ connected
    /\ n.uuid \in subscribed
    /\ \E t \in Tasks : strm[t].open
    /\ CanBroadcast
    /\ strm' = Broadcast(n)
    /\ UNCHANGED <<el, tx, subscribed, connected, devPending, cont, user_n, log, hist>>
    /\ UNCHANGED cfgVars

\* The connection breaks: every open notification stream ends, and the
\* commands not yet answered are lost with the link
Disconnect ==
    /\ connected
    /\ connected' = FALSE
    /\ devPending' = <<>>
    /\ strm' = [t \in Tasks |-> IF strm[t].open THEN [strm[t] EXCEPT !.closed = TRUE]
                                 ELSE strm[t]]
    /\ UNCHANGED <<el, tx, subscribed, cont, user_n, log, hist>>
    /\ UNCHANGED cfgVars

(* -------------------------------------------------------- specifications *)

\* PolarSensor::new: data_type None, range 8, sample_rate 200
InitSession ==
    /\ data_type = None
    /\ range = 8
    /\ sample_rate = 200
    /\ last = Called("new", Ecg, 0, "Ok")

\* event_loop entered, nothing written yet; the sensor is connected, has an
\* event handler, and the caller subscribed to the three data streams
InitRun ==
    /\ el = [pc |-> "stopAcc", i |-> 1, cur |-> NoNotification, polls |-> 0]
    /\ tx = [t \in Tasks |-> IF t = "el" THEN CallTx(StopMeasurement, Acc) ELSE IdleTx]
    /\ strm = [t \in Tasks |-> NoStream]
    /\ subscribed = {"Data", "HR", "Battery"}
    /\ connected = TRUE
    /\ devPending = <<>>
    /\ cont = TRUE
    /\ user_n = 0
    /\ log = [t \in Tasks |-> <<>>]
    /\ hist = [dispatched |-> FALSE, stopped |-> FALSE, running |-> {}]

\* The values data_type takes after data_type_push and data_type_pop calls
Requested ==
    {None, Some(<<Ecg>>), Some(<<Acc>>), Some(<<Ecg, Acc>>), Some(<<Acc, Ecg>>)}

\* No decoder call is under check
NoCall == [fn |-> "none", done |-> TRUE]

CfgInit == InitSession /\ InitRun /\ call = NoCall

CfgNext ==
    /\ \/ \E t \in H10MeasurementType : PushCall(t)
       \/ \E t \in H10MeasurementType : PopCall(t)
       \/ \E v \in SettingArgs : RangeCall(v)
       \/ \E v \in SettingArgs : SampleRateCall(v)
    /\ UNCHANGED runVars
    /\ UNCHANGED call

CfgSpec == CfgInit /\ [][CfgNext]_vars

Init ==
    /\ data_type \in Requested
    /\ range = 8
    /\ sample_rate = 200
    /\ last = Called("new", Ecg, 0, "Ok")
    /\ InitRun
    /\ call = NoCall

ELStep ==
    \/ GPR_Subscribe("el")
    \/ GPR_Notifications("el")
    \/ GPR_Write("el")
    \/ GPR_Await("el")
    \/ GPR_StreamEnded("el")
    \/ GPR_Unsubscribe("el")
    \/ EL_Notifications
    \/ EL_Next
    \/ EL_StreamEnded
    \/ EL_Poll
    \/ EL_Dispatch

DeviceStep ==
    \/ DeviceRespond
    \/ \E n \in Notifications : DeviceNotify(n)
    \/ Disconnect

Next == ELStep \/ UserSendFalse \/ DeviceStep

Spec == Init /\ [][Next]_vars

\* The tokio runtime runs a task that can make a step; the device answers
\* the commands it was sent
Fairness == WF_vars(ELStep) /\ SF_vars(DeviceRespond)

FairSpec == Spec /\ Fairness

UserStep ==
    \/ \E cmd \in {RequestMeasurementStart, StopMeasurement}, ty \in H10MeasurementType :
          UserCall(cmd, ty)
    \/ GPR_Subscribe("user")
    \/ GPR_Notifications("user")
    \/ GPR_Write("user")
    \/ GPR_Await("user")
    \/ GPR_StreamEnded("user")
    \/ GPR_Unsubscribe("user")

ConcNext == Next \/ UserStep

ConcSpec == Init /\ [][ConcNext]_vars

\* The op-codes get_pmd_response matches on
Commands == {Null, GetMeasurementSettings, RequestMeasurementStart, StopMeasurement}

\* A connected sensor on which event_loop is not running; range and
\* sample_rate hold any of the values range() and sample_rate() store
TxInit ==
    /\ data_type = None
    /\ range \in {2, 4, 8}
    /\ sample_rate \in {25, 50, 100, 200}
    /\ last = Called("new", Ecg, 0, "Ok")
    /\ call = NoCall
    /\ el = [pc |-> "none", i |-> 1, cur |-> NoNotification, polls |-> 0]
    /\ tx = [t \in Tasks |-> IdleTx]
    /\ strm = [t \in Tasks |-> NoStream]
    /\ subscribed = {"Data", "HR", "Battery"}
    /\ connected = TRUE
    /\ devPending = <<>>
    /\ cont = TRUE
    /\ user_n = 0
    /\ log = [t \in Tasks |-> <<>>]
    /\ hist = [dispatched |-> FALSE, stopped |-> FALSE, running |-> {}]

\* get_pmd_response called with any op-code and type
TxCall == \E cmd \in Commands, ty \in H10MeasurementType : UserCall(cmd, ty)

TxNext ==
    \/ TxCall
    \/ GPR_Subscribe("user")
    \/ GPR_Notifications("user")
    \/ GPR_Write("user")
    \/ GPR_Await("user")
    \/ GPR_StreamEnded("user")
    \/ GPR_Unsubscribe("user")
    \/ DeviceStep

TxSpec == TxInit /\ [][TxNext]_vars

(* ------------------------------------------------- the decoders alone *)

\* A decoder call not yet made, and the call once it returned
Pending(fn, arg) == [fn |-> fn, arg |-> arg, done |-> FALSE, res |-> Err("", 0)]

Done(res) == [call EXCEPT !.done = TRUE, !.res = res]

\* The call under check is fn(arg), not yet made
IsPending(fn) == call.fn = fn /\ ~call.done

\* The call under check was fn(arg) and has returned (or panicked)
IsDone(fn) == call.fn = fn /\ call.done

\* Control-point notifications given to ControlResponse::new: too short
\* ones, and every combination of a first byte (ATT codes 0 and 17, 18,
\* the marker 0xF0), an op-code, a type tag, a status and a tail
ControlInputs ==
    { <<>>, <<0>>, <<0, 2, 2>>, <<240, 2, 2>> }
    \cup { <<b0, op, tag, st>> \o tail :
              b0 \in {0, 17, 18, 240}, op \in 0..5, tag \in 0..3,
              st \in {Success, AlreadyInState, DeviceInCharger, 14},
              tail \in {<<>>, <<0>>, <<1>>, <<1, 130>>, <<0, 130, 7>>} }

Apply_ControlResponse_new ==
    /\ IsPending("ControlResponse::new")
    /\ call' = Done(ControlResponse_new(call.arg))
    /\ UNCHANGED <<data_type, range, sample_rate, last>>
    /\ UNCHANGED runVars

\* First notifications that leave a response waiting for more, and the
\* continuation notifications that may follow
FirstInputs == { <<0, 1, 2, Success, 1>>, <<0, 1, 2, Success, 1, 130, 7>> }

ContInputs == { <<>>, <<0>>, <<0, 9>>, <<1>>, <<1, 7>>, <<2, 5, 6>> }

\* A response built from a first notification, no continuation applied yet
Accumulating(d) ==
    [fn |-> "add_parameters", arg |-> <<>>, done |-> FALSE,
     res |-> ControlResponse_new(d), first |-> ControlResponse_new(d).val]

\* add_parameters applied to the next continuation notification, as long
\* as the response says more is to come
Apply_add_parameters(n) ==
    /\ IsPending("add_parameters")
    /\ Len(call.arg) < MaxConts
    /\ call' = [call EXCEPT
                   !.arg = Append(@, n),
                   !.res = add_parameters(call.res.val, n),
                   !.done = ~add_parameters(call.res.val, n).ok
                            \/ ~add_parameters(call.res.val, n).val.more]
    /\ UNCHANGED <<data_type, range, sample_rate, last>>
    /\ UNCHANGED runVars

\* The timestamp bytes and the frame-type byte of the notifications in the
\* tests of response.rs, and sample bytes: the accelerometer frames of
\* pmd_read_acc_new, and ECG frames starting with that of pmd_read_ecg_new
Stamp == <<234, 84, 162, 66, 139, 69, 82, 8>>

AccBody == <<69, 255, 228, 255, 181, 3, 69, 255, 228, 255, 184, 3>>

EcgBody == <<255, 255, 255, 0, 0, 16, 1, 2, 128>>

\* The first n bytes of a data notification: the tag, the timestamp, the
\* frame type, then the sample bytes of body, repeated as needed
PmdPayload(tag, body, n) ==
    [i \in 1..n |->
        IF i = 1 THEN tag
        ELSE IF i <= 9 THEN Stamp[i - 1]
        ELSE IF i = 10 THEN (IF body = AccBody THEN 1 ELSE 0)
        ELSE body[((i - 11) % Len(body)) + 1]]

\* Data notifications given to PmdRead::new: every length from the empty
\* payload on, under the tags 0 to 3 and the unused tag 4
PmdInputs ==
    { PmdPayload(tag, body, n) :
         tag \in 0..4, body \in {AccBody, EcgBody}, n \in 0..MaxPmdLen }

\* Byte values given to bytes_to_data: both sides of the sign bit, and
\* the bytes of the tests convert_i24_to_i32, convert_i16_to_i32 and
\* convert_i8_to_i32
ByteVals == {0, 1, 16, 127, 128, 255}

\* The calls bytes_to_data(&data[..], len) with len bytes of data
BytesInputs ==
    { [data |-> <<b0>>, len |-> 1] : b0 \in ByteVals }
    \cup { [data |-> <<b0, b1>>, len |-> 2] : b0 \in ByteVals, b1 \in ByteVals }
    \cup { [data |-> <<b0, b1, b2>>, len |-> 3] :
               b0 \in ByteVals, b1 \in ByteVals, b2 \in ByteVals }

Apply_bytes_to_data ==
    /\ IsPending("bytes_to_data")
    /\ call' = Done(bytes_to_data(call.arg.data, call.arg.len))
    /\ UNCHANGED <<data_type, range, sample_rate, last>>
    /\ UNCHANGED runVars

Apply_PmdRead_new ==
    /\ IsPending("PmdRead::new")
    /\ call' = Done(PmdRead_new(call.arg))
    /\ UNCHANGED <<data_type, range, sample_rate, last>>
    /\ UNCHANGED runVars

\* Raw RR pairs: those of the test hr_new, zero, and both sides of the
\* sign bit of the high byte
RRPairs == { <<55, 4>>, <<7, 3>>, <<0, 0>>, <<255, 127>>, <<0, 128>>, <<255, 255>> }

\* The byte sequences made of at most n pairs
RECURSIVE PairSeqs(_)
PairSeqs(n) ==
    IF n = 0 THEN { <<>> }
    ELSE PairSeqs(n - 1) \cup { s \o q : s \in PairSeqs(n - 1), q \in RRPairs }

\* Heart-rate notifications given to HeartRate::new: too short ones, and the
\* flags byte with and without bit 4, the bpm byte, the pairs and possibly
\* one byte more
HRInputs ==
    { <<>>, <<16>> }
    \cup { <<flags, 60>> \o pairs \o tail :
               flags \in {0, 6, 16, 22}, pairs \in PairSeqs(MaxRR),
               tail \in { <<>>, <<9>> } }

Apply_HeartRate_new ==
    /\ IsPending("HeartRate::new")
    /\ call' = Done(HeartRate_new(call.arg.data, call.arg.overflow_checks))
    /\ UNCHANGED <<data_type, range, sample_rate, last>>
    /\ UNCHANGED runVars

\* Runs of a settings payload: those the H10 reports for Ecg (130 Hz, 14
\* bits) and for Acc (25 to 200 Hz, 16 bits, 2 to 8 G), a Resolution run of
\* two values, an empty Range run and a Range run under another tag
SettingRuns ==
    { [tag |-> 0, vals |-> <<130>>], [tag |-> 0, vals |-> <<25, 50, 100, 200>>],
      [tag |-> 1, vals |-> <<14>>], [tag |-> 1, vals |-> <<16, 12>>],
      [tag |-> 2, vals |-> <<8, 2>>], [tag |-> 2, vals |-> <<>>],
      [tag |-> 5, vals |-> <<4>>] }

\* The settings the H10 reports for Ecg and for Acc
EcgRuns == << [tag |-> 0, vals |-> <<130>>], [tag |-> 1, vals |-> <<14>>] >>

AccRuns ==
    << [tag |-> 0, vals |-> <<25, 50, 100, 200>>], [tag |-> 1, vals |-> <<16>>],
       [tag |-> 2, vals |-> <<2, 4, 8>>] >>

\* The lists of at most n runs
RECURSIVE RunLists(_)
RunLists(n) ==
    IF n = 0 THEN { <<>> }
    ELSE RunLists(n - 1)
         \cup { Append(l, r) : l \in RunLists(n - 1), r \in SettingRuns }

\* The bytes of a run: the tag, the length, then (value, reserved) pairs
RECURSIVE Pairs(_)
Pairs(vals) ==
    IF vals = <<>> THEN <<>> ELSE <<Head(vals), 0>> \o Pairs(Tail(vals))

RunBytes(r) == <<r.tag, Len(r.vals)>> \o Pairs(r.vals)

\* The settings payload made of the runs l
RECURSIVE Payload(_)
Payload(l) == IF l = <<>> THEN <<>> ELSE RunBytes(Head(l)) \o Payload(Tail(l))

\* The calls of StreamSettings::new: the response to a settings query or to
\* a start command, whose parameters are the first keep bytes of a payload
SettingsInputs ==
    UNION { { [opcode |-> op, ty |-> ty, runs |-> l, keep |-> k] :
                 op \in {GetMeasurementSettings, RequestMeasurementStart},
                 ty \in H10MeasurementType,
                 k \in 0..Len(Payload(l)) } :
            l \in RunLists(MaxRuns) \cup {EcgRuns, AccRuns} }

\* The response get_pmd_response hands to StreamSettings::new for a call
SettingsResponse(a) ==
    ControlResponse_new(<<0, a.opcode, as_u8(a.ty), Success, 0>>
                        \o SubSeq(Payload(a.runs), 1, a.keep)).val

Apply_StreamSettings_new ==
    /\ IsPending("StreamSettings::new")
    /\ call' = Done(StreamSettings_new(SettingsResponse(call.arg)))
    /\ UNCHANGED <<data_type, range, sample_rate, last>>
    /\ UNCHANGED runVars

\* The calls DecSpec starts from
DecCalls ==
    { Pending("ControlResponse::new", d) : d \in ControlInputs }
    \cup { Accumulating(d) : d \in FirstInputs }
    \cup { Pending("PmdRead::new", d) : d \in PmdInputs }
    \cup { Pending("bytes_to_data", a) : a \in BytesInputs }
    \cup { Pending("StreamSettings::new", a) : a \in SettingsInputs }
    \cup { Pending("HeartRate::new", [data |-> d, overflow_checks |-> b]) :
               d \in HRInputs, b \in Builds }

DecInit == InitSession /\ InitRun /\ call \in DecCalls

DecNext ==
    \/ Apply_ControlResponse_new
    \/ \E n \in ContInputs : Apply_add_parameters(n)
    \/ Apply_PmdRead_new
    \/ Apply_bytes_to_data
    \/ Apply_HeartRate_new
    \/ Apply_StreamSettings_new

DecSpec == DecInit /\ [][DecNext]_vars

(* -------------------------------------- properties: get_pmd_response *)

\* In this step get_pmd_response returns Ok(tx[t].response) to task t
ReturnsOk(t) ==
    /\ tx[t].step = "unsub"
    /\ Len(log'[t]) > Len(log[t])
    /\ log'[t][Len(log'[t])].e = "done"

\* C1, as stated: the ControlResponse get_pmd_response hands to its caller
\* is complete, it never has more = true (a first notification with the
\* more flag set is followed up until a notification clears the flag).
C1_AsStated ==
    [][\A t \in Tasks : ReturnsOk(t) => ~tx[t].response.val.more]_vars

\* C2, as stated: the ControlResponse get_pmd_response(cmd, ty) returns has
\* opcode = cmd and measurement type = ty in every interleaving, also when
\* start or stop is called on the same sensor while event_loop awaits its
\* own control-point notification.
C2_AsStated ==
    [][\A t \in Tasks : ReturnsOk(t) =>
          /\ tx[t].response.val.opcode = tx[t].cmd
          /\ tx[t].response.val.measurement_type = tx[t].ty]_vars

\* The error the call of task t returned in this step
ReturnedErr(t) == log'[t][Len(log'[t])].e

\* A step of get_pmd_response(Null, ty) run by task t
NullStep(t) == tx[t].cmd = Null /\ tx[t].step # "none" /\ tx'[t] # tx[t]

KnownFields(d) ==
    /\ Len(d) >= 4
    /\ d[2] \in Null..GetSdkModeMeasurementSettings
    /\ d[3] \in {as_u8(Ecg), as_u8(Acc)}
    /\ d[4] \in Success..DeviceInCharger

\* The response holds the op-code, type and status of the notification
HoldsFields(r, d) ==
    /\ r.opcode = d[2]
    /\ as_u8(r.measurement_type) = d[3]
    /\ r.status = d[4]

\* C12, as stated: ControlResponse::new accepts every notification of at
\* least 4 bytes that begins with the response marker 0xF0 and carries a
\* known op-code, type tag and status, and returns a response holding them.
C12_AsStated ==
    IsDone("ControlResponse::new") /\ KnownFields(call.arg) /\ call.arg[1] = 240 =>
        call.res.ok /\ HoldsFields(call.res.val, call.arg)

\* C13: ControlResponse::new reads the more flag and the parameters only
\* when the status is Success (more = byte 4 present and non-zero,
\* parameters = bytes 5 onward); with any other status the response is
\* still returned, holding that status, with no parameters and more =
\* false, whatever follows byte 3.
C13_SuccessOnly ==
    IsDone("ControlResponse::new") =>
        /\ KnownFields(call.arg) /\ call.arg[1] \in 0..InsufficientResources
              => call.res.ok
        /\ call.res.ok =>
              /\ HoldsFields(call.res.val, call.arg)
              /\ call.res.val.more =
                    (/\ call.arg[4] = Success
                     /\ Len(call.arg) >= 5
                     /\ call.arg[5] # 0)
              /\ call.res.val.parameters =
                    IF call.arg[4] = Success
                    THEN SubSeq(call.arg, 6, Len(call.arg))
                    ELSE <<>>

\* C13 witness: a notification with status AlreadyInState followed by a
\* non-zero byte 4 and one more byte was decoded: the response has that
\* status, no parameters and more = false.
C13_Witness ==
    /\ IsDone("ControlResponse::new")
    /\ call.arg = <<0, StopMeasurement, as_u8(Acc), AlreadyInState, 1, 130>>
    /\ call.res.ok
    /\ call.res.val.status = AlreadyInState
    /\ call.res.val.parameters = <<>>
    /\ ~call.res.val.more

\* The payloads (bytes 1 onward) of the continuation notifications that
\* carry a non-zero flag, one after the other
RECURSIVE Payloads(_)
Payloads(conts) ==
    IF conts = <<>> THEN <<>>
    ELSE (IF Head(conts)[1] # 0 THEN Tail(Head(conts)) ELSE <<>>)
         \o Payloads(Tail(conts))

\* C14: a continuation notification with a non-zero first byte appends its
\* bytes 1 onward to the parameters and leaves more set; one with a zero
\* first byte clears more and leaves the parameters as they are. So the
\* parameters are always those of the first notification followed by the
\* payloads of the non-terminating continuations in arrival order, and
\* more is set until a terminating notification came.
C14_Continuation ==
    call.fn = "add_parameters" /\ call.res.ok =>
        /\ call.res.val.parameters = call.first.parameters \o Payloads(call.arg)
        /\ call.res.val.more = (\A k \in 1..Len(call.arg) : call.arg[k][1] # 0)
        /\ call.res.val.status = call.first.status
        /\ call.res.val.opcode = call.first.opcode

\* C14 witness: two continuations with payloads, then the terminating one
\* whose own payload is dropped.
C14_Witness ==
    /\ IsDone("add_parameters")
    /\ call.arg = << <<1, 7>>, <<2, 5, 6>>, <<0, 9>> >>
    /\ call.first.parameters = <<130, 7>>
    /\ call.res.val.parameters = <<130, 7, 7, 5, 6>>
    /\ ~call.res.val.more

(* ---------------------------------------------- properties: event_loop *)

\* What event_loop has written, completed and gone through so far
ELLog == log["el"]

\* event_loop has returned Ok(()) or an error
Returned == el.pc \in {"ok", "err"}

\* event_loop is inside its while loop
InLoop == el.pc \in {"next", "poll", "dispatch"}

\* Entry k of event_loop's log
IsEntry(k, e, cmd, ty) == ELLog[k] = [e |-> e, cmd |-> cmd, ty |-> ty]

\* C3, as stated: once event_loop has entered its loop, however the loop
\* ends (should_continue returned false, or the stream ended), a
\* StopMeasurement is written for every requested type before event_loop
\* returns.
C3_AsStated ==
    Returned =>
        \A k \in 1..Len(ELLog) :
            ELLog[k].e \in {"break", "closed"} =>
                \A i \in 1..Len(Types) :
                    \E j \in (k + 1)..Len(ELLog) :
                        IsEntry(j, "write", StopMeasurement, Types[i])

\* C4: in event_loop a StopMeasurement transaction for t has completed
\* before the RequestMeasurementStart for t is written, for every requested
\* type t; and every RequestMeasurementStart transaction (one per requested
\* type) has completed before the loop is entered, hence before the first
\* notification is dispatched to the handler.
C4_StopStartLoop ==
    /\ \A k \in 1..Len(ELLog) :
          ELLog[k].e = "write" /\ ELLog[k].cmd = RequestMeasurementStart =>
              \E j \in 1..(k - 1) : IsEntry(j, "done", StopMeasurement, ELLog[k].ty)
    /\ \A k \in 1..Len(ELLog) :
          ELLog[k].e = "loop" =>
              /\ \A i \in 1..Len(Types) :
                    \E j \in 1..(k - 1) : IsEntry(j, "done", RequestMeasurementStart, Types[i])
              /\ \A j \in 1..Len(ELLog) :
                    ELLog[j].e = "write" /\ ELLog[j].cmd = RequestMeasurementStart =>
                        \E m \in (j + 1)..(k - 1) :
                            IsEntry(m, "done", RequestMeasurementStart, ELLog[j].ty)
    /\ hist.dispatched \/ InLoop => \E k \in 1..Len(ELLog) : ELLog[k].e = "loop"

\* C4 witness: two types are requested and a notification has been
\* dispatched to the handler.
C4_Witness == Len(Types) = 2 /\ hist.dispatched /\ InLoop

\* C5: should_continue is polled once per received notification, before the
\* notification is decoded or dispatched (el.polls counts the polls since
\* the notification was taken from the stream); once it has returned false
\* the loop has been left for good: the notification is not dispatched, no
\* handler is called any more and should_continue is not polled again.
C5_PollOnce ==
    /\ el.pc = "poll" => el.polls = 0
    /\ el.pc = "dispatch" => el.polls = 1 /\ ~hist.stopped
    /\ hist.stopped => ~InLoop /\ el.polls = 1

\* C5 witness: handlers were called, then should_continue returned false
\* and the loop was left by the break.
C5_Witness ==
    /\ hist.stopped
    /\ hist.dispatched
    /\ \E k \in 1..Len(ELLog) : ELLog[k].e = "break"

\* C6, first half: event_loop leaves the wait for the next notification
\* only when a notification is there or the stream has ended; as long as
\* neither happens it stays in the loop, whatever should_continue would
\* return.
C6_Boundary ==
    [][el.pc = "next" /\ el'.pc # "next" =>
          strm["el"].q # <<>> \/ strm["el"].closed]_vars

\* Notifications keep arriving: event_loop is not left waiting for ever
\* with nothing in its stream
KeepArriving == []<>(el.pc = "next" => strm["el"].q # <<>>)

\* event_loop is over: it returned, or it unwound from a panic of
\* get_pmd_response or of a decoder
Over == Returned \/ el.pc = "panic"

\* C6, second half: if should_continue returns false from some point on
\* and notifications keep arriving, event_loop leaves the loop and ends.
\* It is stated for FairSpec, where event_loop is the only task using the
\* control point: under ConcSpec a second task's unsubscribe can make the
\* device drop the answer event_loop awaits, and nothing times that wait out.
C6_Leaves == (<>[](~cont) /\ KeepArriving) => <>(Over /\ ~InLoop)

DecodeFails ==
    /\ el.pc = "dispatch"
    /\ \/ el.cur.uuid = "HR" /\ \E overflow_checks \in Builds :
                                   ~HeartRate_new(el.cur.value, overflow_checks).ok
       \/ el.cur.uuid = "Data" /\ ~PmdRead_new(el.cur.value).ok

\* C7, as stated: a notification that fails to decode (a malformed PMD
\* frame, a malformed heart-rate notification) does not end event_loop: it
\* goes back to wait for the following notification.
C7_AsStated == [][DecodeFails /\ el' # el => el'.pc = "next"]_vars

(* ------------------------------------------- properties: configuration *)

\* The requested types hold no type twice
NoDuplicates(s) == \A j, k \in 1..Len(s) : s[j] = s[k] => j = k

\* Vec::contains on the requested types of a data_type value
Requests(dt, t) == dt.some /\ contains(dt.types, t)

\* C8: after any sequence of data_type_push and data_type_pop calls the
\* requested types hold no duplicate and at most two entries; and
\* data_type_push(t) makes a one-element list from the unset state, appends
\* t at the end when t is absent and fewer than two types are requested,
\* and changes nothing otherwise.
C8_PushBounded ==
    /\ data_type.some => Len(data_type.types) <= 2 /\ NoDuplicates(data_type.types)
    /\ last.op = "data_type_push" =>
          data_type =
             IF ~last.was.data_type.some THEN Some(<<last.ty>>)
             ELSE IF ~contains(last.was.data_type.types, last.ty)
                     /\ Len(last.was.data_type.types) < 2
             THEN Some(last.was.data_type.types \o <<last.ty>>)
             ELSE last.was.data_type

\* C8 witness: data_type_push(Acc) was called with Acc already requested
\* next to Ecg, and the two entries are still there.
C8_Witness ==
    /\ last.op = "data_type_push"
    /\ last.ty = Acc
    /\ last.was.data_type = Some(<<Acc, Ecg>>)
    /\ data_type = Some(<<Acc, Ecg>>)

\* C9: data_type_pop(t) removes t and keeps the other entries in their
\* order, changing nothing when t is absent or nothing is requested; when
\* the last entry goes the state is None, so that data_type is never
\* Some of an empty list.
C9_PopCollapses ==
    /\ data_type.some => data_type.types # <<>>
    /\ last.op = "data_type_pop" =>
          LET rest == SelectSeq(last.was.data_type.types, LAMBDA x : x # last.ty)
          IN  data_type =
                 IF ~last.was.data_type.some THEN None
                 ELSE IF rest = <<>> THEN None
                 ELSE Some(rest)

\* C9 witness: data_type_pop removed the only requested type and the state
\* is None again.
C9_Witness ==
    /\ last.op = "data_type_pop"
    /\ last.was.data_type = Some(<<last.ty>>)
    /\ data_type = None

\* The values range accepts, and the values sample_rate accepts
LegalRange == {2, 4, 8}

LegalSampleRate == {25, 50, 100, 200}

\* The last call was range or sample_rate with a value legal for it
LegalValue ==
    \/ last.op = "range" /\ last.v \in LegalRange
    \/ last.op = "sample_rate" /\ last.v \in LegalSampleRate

\* The field the last range or sample_rate call is about, now and before
Stored == IF last.op = "range" THEN range ELSE sample_rate

StoredBefore == IF last.op = "range" THEN last.was.range ELSE last.was.sample_rate

\* A range or sample_rate call stores its value exactly when it returns Ok,
\* and touches nothing else
StoresOnOk ==
    /\ Stored = IF last.res = "Ok" THEN last.v ELSE StoredBefore
    /\ data_type = last.was.data_type
    /\ last.op = "range" => sample_rate = last.was.sample_rate
    /\ last.op = "sample_rate" => range = last.was.range

\* C10, as stated: range(v) and sample_rate(v) succeed and store v exactly
\* when Acc is requested and v is legal; otherwise nothing is stored and the
\* error is NoDataType when no type is requested, WrongType when types are
\* requested without Acc, and InvalidData when v is not legal.
C10_AsStated ==
    last.op \in {"range", "sample_rate"} =>
        /\ last.res = "Ok" <=> (Requests(last.was.data_type, Acc) /\ LegalValue)
        /\ StoresOnOk
        /\ ~last.was.data_type.some => last.res = "NoDataType"
        /\ last.was.data_type.some /\ ~Requests(last.was.data_type, Acc)
              => last.res = "WrongType"
        /\ ~LegalValue => last.res = "InvalidData"

\* C10, amended: the value is looked at first. An illegal v fails with
\* InvalidData whatever is requested; a legal v fails with NoDataType when
\* no type is requested and with WrongType when types are requested without
\* Acc; it succeeds and is stored exactly when Acc is requested and v is
\* legal, and a failed call stores nothing.
C10_ValueFirst ==
    last.op \in {"range", "sample_rate"} =>
        /\ last.res = IF ~LegalValue THEN "InvalidData"
                      ELSE IF ~last.was.data_type.some THEN "NoDataType"
                      ELSE IF ~Requests(last.was.data_type, Acc) THEN "WrongType"
                      ELSE "Ok"
        /\ StoresOnOk

\* C10 witness: range was called with an illegal value while no type was
\* requested: it returned InvalidData and stored nothing.
C10_Witness ==
    /\ last.op = "range"
    /\ last.v \notin LegalRange
    /\ ~last.was.data_type.some
    /\ last.res = "InvalidData"
    /\ range = last.was.range

(* ------------------------------------------------ properties: PmdRead *)

\* The measurement types with a frame width, by their tag
FrameWidth(tag) == as_bytes(H10MeasurementType_try_from(tag).val)

\* A payload shorter than the type tag, the eight timestamp bytes and one
\* whole sample of its type; the empty payload is one
Truncated(d) ==
    \/ Len(d) = 0
    \/ /\ H10MeasurementType_try_from(d[1]).ok
       /\ Len(d) < 1 + 8 + FrameWidth(d[1])

\* C15, as stated: PmdRead::new given a truncated notification (shorter
\* than the type tag plus eight timestamp bytes plus one whole sample, the
\* empty payload included) returns Err(InvalidLength) and does not panic.
C15_AsStated ==
    IsDone("PmdRead::new") /\ Truncated(call.arg) =>
        ~call.res.panic /\ ~call.res.ok /\ call.res.err = "InvalidLength"

\* The sample bytes of a payload are not a whole number of frames
Leftover(d) ==
    /\ Len(d) >= 10
    /\ H10MeasurementType_try_from(d[1]).ok
    /\ (Len(d) - 10) % FrameWidth(d[1]) # 0

\* C16, as stated: PmdRead::new rejects with InvalidLength every
\* notification whose sample data length (the payload length minus the
\* header) is not an exact multiple of the frame width of its type (Ecg 3,
\* Acc 6); it never returns a frame built from a payload with leftover bytes.
C16_AsStated ==
    IsDone("PmdRead::new") /\ Leftover(call.arg) =>
        ~call.res.ok /\ ~call.res.panic /\ call.res.err = "InvalidLength"

\* The wire tags of the four measurement types Ecg, Ppg, Acc and Ppi
FourTags == {0, 1, 2, 3}

\* C17, as stated: PmdRead::new fails with InvalidData exactly when byte 0
\* is not one of the four known measurement-type tags (Ecg, Ppg, Acc, Ppi);
\* a notification with one of the four tags is not rejected for its tag.
C17_AsStated ==
    IsDone("PmdRead::new") /\ Len(call.arg) >= 1 =>
        (call.res.err = "InvalidData" <=> call.arg[1] \notin FourTags)

(* ------------------------------------------ properties: bytes_to_data *)

\* The unsigned value of the little-endian bytes d
RECURSIVE Unsigned(_)
Unsigned(d) ==
    IF Len(d) = 0 THEN 0 ELSE d[1] + 256 * Unsigned(SubSeq(d, 2, Len(d)))

\* 2^(8w)
RECURSIVE Pow256(_)
Pow256(w) == IF w = 0 THEN 1 ELSE 256 * Pow256(w - 1)

\* The two's-complement value of the little-endian bytes d
TwosComplement(d) ==
    IF d[Len(d)] >= 128 THEN Unsigned(d) - Pow256(Len(d)) ELSE Unsigned(d)

\* bytes_to_data(data, len) returned v
Gives(data, v) ==
    IsDone("bytes_to_data") /\ call.arg.data = data => call.res.ok /\ call.res.val = v

\* C18: for every width w in {1, 2, 3} and every w-byte input bytes_to_data
\* returns the two's-complement value of the little-endian w-byte integer,
\* the unsigned value when the top bit of the most significant byte is clear
\* and that value minus 2^(8w) when it is set; {0xFF,0xFF,0xFF} gives -1,
\* {0x00,0x00,0x10} gives 1048576, {0x00,0x10} gives 4096, {0xFF} gives -1
\* and {0x10} gives 16.
C18_TwosComplement ==
    /\ IsDone("bytes_to_data") /\ call.arg.len \in {1, 2, 3}
                               /\ Len(call.arg.data) = call.arg.len =>
          /\ call.res.ok
          /\ call.res.val = TwosComplement(call.arg.data)
    /\ Gives(<<255, 255, 255>>, -1)
    /\ Gives(<<0, 0, 16>>, 1048576)
    /\ Gives(<<0, 16>>, 4096)
    /\ Gives(<<255>>, -1)
    /\ Gives(<<16>>, 16)

\* C18 witness: bytes_to_data returned a negative number for three bytes
\* whose top bit is set, here -8388607 for {0x01, 0x00, 0x80}.
C18_Witness ==
    /\ IsDone("bytes_to_data")
    /\ call.arg = [data |-> <<1, 0, 128>>, len |-> 3]
    /\ call.res.ok /\ call.res.val = -8388607

(* ---------------------------------------------- properties: HeartRate *)

\* The raw 16-bit RR value of the i-th pair of the notification d
Raw(d, i) == d[2 * i + 1] + 256 * d[2 * i + 2]

\* C19, as stated: HeartRate::new converts each raw 16-bit RR value (units
\* of 1/1024 s) to milliseconds as floor(value * 1000 / 1024): for every
\* raw value v the reported RR interval equals v * 1000 div 1024.
C19_AsStated ==
    IsDone("HeartRate::new") /\ call.res.ok =>
        \A i \in 1..Len(call.res.val.rr.val) :
            call.res.val.rr.val[i] = (Raw(call.arg.data, i) * 1000) \div 1024

\* Bit 4 of the flags byte of the notification d is set
HasRR(d) == Len(d) >= 2 /\ (d[1] \div 16) % 2 = 1

\* C20, as stated: for a heart-rate notification whose flag bit 4 is set,
\* HeartRate::new yields bpm = byte 1 and one RR interval per consecutive
\* 2-byte little-endian pair starting at byte 2, in arrival order;
\* HeartRate::new([16, 60, 55, 4, 7, 3]) yields bpm = 60 and
\* rr = Some([1104, 793]).
C20_AsStated ==
    /\ IsDone("HeartRate::new") /\ HasRR(call.arg.data) =>
          /\ call.res.ok
          /\ call.res.val.bpm = call.arg.data[2]
          /\ Len(call.res.val.rr.val) = (Len(call.arg.data) - 2) \div 2
          /\ \A i \in 1..Len(call.res.val.rr.val) :
                call.res.val.rr.val[i] =
                    rr_sample(SubSeq(call.arg.data, 2 * i + 1, 2 * i + 2),
                              call.arg.overflow_checks).val
    /\ IsDone("HeartRate::new") /\ call.arg.data = <<16, 60, 55, 4, 7, 3>> =>
          /\ call.res.ok
          /\ call.res.val.bpm = 60
          /\ call.res.val.rr = [some |-> TRUE, val |-> <<1104, 793>>]

\* C21: when flag bit 4 of a heart-rate notification is clear,
\* HeartRate::new produces no RR interval (rr = None) whatever the number of
\* bytes after the bpm byte, the surplus bytes are never parsed; a
\* notification shorter than 2 bytes is rejected with InvalidLength.
C21_FlagDecides ==
    IsDone("HeartRate::new") =>
        IF Len(call.arg.data) < 2
        THEN ~call.res.ok /\ ~call.res.panic /\ call.res.err = "InvalidLength"
        ELSE ~HasRR(call.arg.data) =>
                /\ call.res.ok
                /\ call.res.val.bpm = call.arg.data[2]
                /\ call.res.val.rr = [some |-> FALSE, val |-> <<>>]

\* C21 witness: a notification with bit 4 clear and five bytes after the
\* bpm byte, two of them a pair that would overflow, gave bpm 60 and no RR.
C21_Witness ==
    /\ IsDone("HeartRate::new")
    /\ call.arg.data = <<6, 60, 55, 4, 0, 128, 9>>
    /\ call.res.ok /\ ~call.res.val.rr.some

(* ----------------------------------------- properties: command bytes *)

\* The wire tag of a measurement type: Ecg 0x00, Acc 0x02
Tag(ty) == IF ty = Ecg THEN 0 ELSE 2

\* The bytes of a command as C22 lists them
ListedBytes(cmd, ty) ==
    IF cmd = GetMeasurementSettings THEN <<1, Tag(ty)>>
    ELSE IF cmd = StopMeasurement THEN <<3, Tag(ty)>>
    ELSE IF ty = Acc
    THEN <<2, 2, 2, 1, range, 0, 0, 1, sample_rate, 0, 1, 1, 16, 0>>
    ELSE <<2, 0, 0, 1, 130, 0, 1, 1, 14, 0>>

\* Task t writes to the control point in this step
Writes(t) == tx[t].step = "write" /\ tx'[t].step = "await"

\* C22: the bytes written to the control point are bit-exact: the settings
\* query is [0x01, tag], stop is [0x03, tag], start for Acc is [0x02, 0x02,
\* 0x02, 0x01, range, 0x00, 0x00, 0x01, sample_rate, 0x00, 0x01, 0x01, 0x10,
\* 0x00] with the range and sample rate stored in the session, and start
\* for Ecg is [0x02, 0x00, 0x00, 0x01, 0x82, 0x00, 0x01, 0x01, 0x0e, 0x00].
C22_BitExact ==
    [][/\ \A t \in Tasks : Writes(t) =>
              devPending' = Append(devPending, ListedBytes(tx[t].cmd, tx[t].ty))
       /\ Len(devPending') > Len(devPending) => \E t \in Tasks : Writes(t)]_vars

\* C22 witness: with range 2 and sample rate 25 stored, the start command
\* for Acc was written with these two values.
C22_Witness ==
    /\ range = 2 /\ sample_rate = 25
    /\ \E k \in 1..Len(devPending) :
          devPending[k] = <<2, 2, 2, 1, 2, 0, 0, 1, 25, 0, 1, 1, 16, 0>>

(* ----------------------------------------- properties: PmdRead samples *)

\* The signed value of the w little-endian bytes of d that start at
\* position p
SignedAt(d, p, w) == TwosComplement(SubSeq(d, p, p + w - 1))

\* What the i-th sample of a payload d of type ty is to be: for Ecg the
\* 3-byte value of the i-th 3-byte frame, for Acc the three 2-byte values
\* of the i-th 6-byte frame
ExpectedSample(d, ty, i) ==
    IF ty = Ecg THEN SignedAt(d, 10 + 3 * (i - 1) + 1, 3)
    ELSE <<SignedAt(d, 10 + 6 * (i - 1) + 1, 2),
           SignedAt(d, 10 + 6 * (i - 1) + 3, 2),
           SignedAt(d, 10 + 6 * (i - 1) + 5, 2)>>

\* C23: PmdRead::new slices the sample data into consecutive frames of the
\* width of the type and decodes them in arrival order: the i-th sample
\* comes from the i-th frame, an Acc frame gives x, y, z as three
\* consecutive 2-byte little-endian signed values and an Ecg frame one
\* 3-byte little-endian signed value; the Acc frame 45 ff e4 ff b5 03 gives
\* (-187, -28, 949) and the Ecg frame ff ff ff gives -1.
C23_FramesInOrder ==
    IsDone("PmdRead::new") /\ call.res.ok =>
        /\ Len(call.res.val.data) =
              (Len(call.arg) - 10) \div as_bytes(call.res.val.data_type)
        /\ \A i \in 1..Len(call.res.val.data) :
              call.res.val.data[i] =
                  ExpectedSample(call.arg, call.res.val.data_type, i)
        /\ \A i \in 1..Len(call.res.val.data) :
              IF call.res.val.data_type = Acc
              THEN SubSeq(call.arg, 10 + 6 * (i - 1) + 1, 10 + 6 * i)
                      = <<69, 255, 228, 255, 181, 3>>
                   => call.res.val.data[i] = <<-187, -28, 949>>
              ELSE SubSeq(call.arg, 10 + 3 * (i - 1) + 1, 10 + 3 * i)
                      = <<255, 255, 255>>
                   => call.res.val.data[i] = -1

\* C23 witness: the notification of the test pmd_read_acc_new, two
\* accelerometer frames, was decoded into (-187, -28, 949) and
\* (-187, -28, 952), in this order.
C23_Witness ==
    /\ IsDone("PmdRead::new")
    /\ call.arg = <<2>> \o Stamp \o <<1>> \o AccBody
    /\ call.res.ok
    /\ call.res.val.data = << <<-187, -28, 949>>, <<-187, -28, 952>> >>

(* ----------------------------------------- properties: StreamSettings *)

\* The values of the runs of l whose tag is in tags, in the order of l
RECURSIVE ValuesOf(_, _)
ValuesOf(l, tags) ==
    IF l = <<>> THEN <<>>
    ELSE (IF Head(l).tag \in tags THEN Head(l).vals ELSE <<>>)
         \o ValuesOf(Tail(l), tags)

\* The tags that stand for Range among those the inputs use
RangeTags == {2, 5}

\* The settings the runs l describe for the type ty
Described(ty, l) ==
    [ty |-> ty,
     resolution |-> IF ValuesOf(l, {1}) = <<>> THEN 0
                    ELSE ValuesOf(l, {1})[Len(ValuesOf(l, {1}))],
     range |-> [some |-> \E k \in 1..Len(l) : l[k].tag \in RangeTags,
                val |-> ValuesOf(l, RangeTags)],
     sample_rate |-> ValuesOf(l, {0})]

\* The number of whole runs of l in its first k payload bytes, or -1 when
\* the k-th byte is inside a run
WholeRuns(l, k) ==
    IF \E j \in 0..Len(l) : Len(Payload(SubSeq(l, 1, j))) = k
    THEN CHOOSE j \in 0..Len(l) : Len(Payload(SubSeq(l, 1, j))) = k
    ELSE -1

\* StreamSettings::new, called on the response to the runs l, returned the
\* settings st
Parses(l, st) ==
    /\ IsDone("StreamSettings::new")
    /\ call.arg.opcode = GetMeasurementSettings
    /\ call.arg.runs = l /\ call.arg.keep = Len(Payload(l))
    => call.res.ok /\ call.res.val = [st EXCEPT !.ty = call.arg.ty]

\* C24: StreamSettings::new walks the cycle read tag, read length N,
\* consume N (value, reserved) pairs: SampleRate and Range values are
\* collected in the order the device reports them, Resolution keeps the
\* last value seen, range is None when no Range tag appeared and
\* Some(values) otherwise; it fails with WrongResponse when the op-code of
\* the response is not GetMeasurementSettings, and a payload truncated in
\* the middle of a run yields InvalidData, not a panic.
C24_SettingsWalk ==
    /\ IsDone("StreamSettings::new") =>
          IF call.arg.opcode # GetMeasurementSettings
          THEN ~call.res.ok /\ ~call.res.panic /\ call.res.err = "WrongResponse"
          ELSE IF WholeRuns(call.arg.runs, call.arg.keep) = -1
          THEN ~call.res.ok /\ ~call.res.panic /\ call.res.err = "InvalidData"
          ELSE /\ call.res.ok
               /\ call.res.val =
                     Described(call.arg.ty,
                               SubSeq(call.arg.runs, 1,
                                      WholeRuns(call.arg.runs, call.arg.keep)))
    /\ Parses(EcgRuns, [NoSettings EXCEPT !.resolution = 14, !.sample_rate = <<130>>])
    /\ Parses(AccRuns, [NoSettings EXCEPT
                            !.resolution = 16,
                            !.range = [some |-> TRUE, val |-> <<2, 4, 8>>],
                            !.sample_rate = <<25, 50, 100, 200>>])

\* C24 witness: the settings the H10 reports for Acc were parsed into
\* resolution 16, range Some([2, 4, 8]) and sample rates [25, 50, 100, 200].
C24_Witness ==
    /\ IsDone("StreamSettings::new")
    /\ call.arg = [opcode |-> GetMeasurementSettings, ty |-> Acc, runs |-> AccRuns,
                   keep |-> Len(Payload(AccRuns))]
    /\ call.res.ok
    /\ call.res.val.range = [some |-> TRUE, val |-> <<2, 4, 8>>]
    /\ call.res.val.sample_rate = <<25, 50, 100, 200>>
    /\ call.res.val.resolution = 16

(* --------------------------------------- properties: exit of event_loop *)

\* event_loop wrote the command cmd for the type ty as entry k of its log
Wrote(k, cmd, ty) == IsEntry(k, "write", cmd, ty)

\* C25, as stated: on every return path of event_loop, the error returns
\* included (a failed start transaction for a later type, a heart-rate
\* decode error inside the loop, a failed stop transaction for an earlier
\* type during the exit cleanup), every measurement type for which
\* event_loop wrote a RequestMeasurementStart has had a StopMeasurement
\* written after it before event_loop returns.
C25_AsStated ==
    Returned =>
        \A k \in 1..Len(ELLog), ty \in H10MeasurementType :
            Wrote(k, RequestMeasurementStart, ty) =>
                \E j \in (k + 1)..Len(ELLog) : Wrote(j, StopMeasurement, ty)

(* ------------------------------- properties: control-point subscription *)

\* get_pmd_response, called by task t, is past its subscribe
HasSubscribed(t) == tx[t].step \in {"open", "write", "await", "unsub"}

\* In this step get_pmd_response returns to task t, Ok or an error
ReturnsNow(t) ==
    /\ Len(log'[t]) > Len(log[t])
    /\ log'[t][Len(log'[t])].e # "write"

\* C26, as stated: control-point subscriptions are balanced: every
\* get_pmd_response call that subscribed to the control-point characteristic
\* has unsubscribed from it by the time it returns, on every path (success,
\* NullCommand rejection, a failed control-point write, a failure to open
\* the notification stream, stream closure before any control-point
\* notification); no transaction leaves the subscription active.
C26_AsStated ==
    [][\A t \in Tasks :
          HasSubscribed(t) /\ ReturnsNow(t) => "CP" \notin subscribed']_vars

(* ------------------------- properties: malformed control-point responses *)

\* In this step the call of task t takes a control-point notification that
\* ControlResponse::new does not accept
TakesMalformed(t) ==
    /\ tx[t].step = "await"
    /\ next_some(strm[t])
    /\ TakesResponse(t, Head(strm[t].q))
    /\ ~ControlResponse_new(Head(strm[t].q).value).ok
    /\ strm'[t] # strm[t]

\* The task t has panicked
Aborted(t) == IF t = "el" THEN el.pc = "panic" ELSE tx[t].step = "panic"

\* C27, as stated: a malformed control-point notification received during
\* a transaction (shorter than 4 bytes, or with an unknown response, op-code,
\* type or status byte) makes get_pmd_response, and so start, stop, settings
\* and event_loop, return an Err value; it never aborts the task with a
\* panic.
C27_AsStated ==
    [][\A t \in Tasks : TakesMalformed(t) => ~Aborted(t)']_vars

(* ------------------------------------ properties: the stored settings *)

\* C28: in every state reachable from PolarSensor::new by data_type_push,
\* data_type_pop, range and sample_rate calls, successful or failing, the
\* stored range is in {2, 4, 8} and the stored sample rate in {25, 50, 100,
\* 200}; a failing range or sample_rate call leaves range, sample rate and
\* the requested types unchanged. (start, stop, settings and event_loop
\* take &self: they are no steps of the configuration calls and leave the
\* three fields alone in every step of the other specifications.)
C28_LegalSettings ==
    /\ range \in {2, 4, 8}
    /\ sample_rate \in {25, 50, 100, 200}
    /\ last.op \in {"range", "sample_rate"} /\ last.res # "Ok" => Fields = last.was

\* C28 witness: after range was set to 2 and the sample rate to 25, a
\* range call failed on an illegal value and left both where they were.
C28_Witness ==
    /\ last.op = "range" /\ last.res = "InvalidData" /\ last.v = 16
    /\ range = 2 /\ sample_rate = 25
    /\ Fields = last.was

(* ------------------------------------- properties: the RR conversion *)

\* The number of RR pairs of the notification d
PairCount(d) == (Len(d) - 2) \div 2

\* The u32 the conversion multiplies for the i-th pair of d
Widened(d, i) == as_u32(bytes_to_data(SubSeq(d, 2 * i + 1, 2 * i + 2), 2).val)

\* C29, as stated: for every raw 16-bit RR value 0..65535 the conversion is
\* computed without arithmetic overflow: the raw pair is treated as an
\* unsigned 16-bit quantity, the intermediate product stays within 32 bits,
\* and the result fits the u16 RR field, the raw values 0x8000..0xFFFF
\* included.
C29_AsStated ==
    IsDone("HeartRate::new") /\ HasRR(call.arg.data) =>
        /\ ~call.res.panic
        /\ \A i \in 1..PairCount(call.arg.data) :
              /\ Widened(call.arg.data, i) = [hi |-> 0, lo |-> Raw(call.arg.data, i)]
              /\ ~mul_128(Widened(call.arg.data, i)).overflow
              /\ (Raw(call.arg.data, i) * 128) \div 125 < 65536

(* ------------------------------- properties: streams left on the device *)

\* C30, as stated: when event_loop returns, no measurement stream is left
\* running on the device: a stream started through start(ty) while the loop
\* was active, for a type ty that is not in the requested set, is also
\* stopped by the exit cleanup (start and stop never change the requested
\* set). Stated for the return of Ok(()), after the whole exit cleanup.
C30_AsStated == el.pc = "ok" /\ connected => hist.running = {}

====
